---- MODULE Spec2Model ----
(***************************************************************************)
(* Model of streamlit_app.py: the animated "coal share vs. electricity     *)
(* consumption" chart.  build_figure turns the table of observations and   *)
(* the country selection into a Plotly figure (one frame per year) and an  *)
(* AnimationContext; figure_to_gif renders the same timeline as stills and *)
(* encodes them as a GIF; main wires both to the Streamlit page.           *)
(*                                                                         *)
(* Strings that the code orders or produces by conversion (country names,  *)
(* str(year)) are sequences of code points, so that sorted() is the        *)
(* lexicographic order of Python strings.  Floating point values are       *)
(* integers; an axis range is kept in hundredths (min * 95, max * 105      *)
(* stands for min * 0.95, max * 1.05).                                     *)
(***************************************************************************)
EXTENDS Integers, Sequences, FiniteSets, TLC

\* ------------------------------------------------------------------ bounds
MaxRows == 3        \* rows of a freely composed input table
NumYears == 2       \* distinct years an input row may carry
FirstYear == 1999   \* the first of those years
NumNames == 12      \* countries of the widest input table

\* ------------------------------------------------------- Python primitives
\* None
None == [is_none |-> TRUE]

\* str(n) of a non-negative integer: its decimal digits as code points
RECURSIVE str(_)
str(n) == IF n < 10 THEN <<48 + n>> ELSE str(n \div 10) \o <<48 + (n % 10)>>

\* s < t on Python strings (code point by code point, a prefix is smaller)
RECURSIVE StrLess(_, _)
StrLess(s, t) ==
    IF t = <<>> THEN FALSE
    ELSE IF s = <<>> THEN TRUE
    ELSE IF Head(s) = Head(t) THEN StrLess(Tail(s), Tail(t))
    ELSE Head(s) < Head(t)

\* Series.unique(): the distinct values in order of first appearance
RECURSIVE unique(_)
unique(s) ==
    IF s = <<>> THEN <<>>
    ELSE LET init == SubSeq(s, 1, Len(s) - 1)
             last == s[Len(s)]
             u    == unique(init)
         IN IF \E i \in 1..Len(u) : u[i] = last THEN u ELSE Append(u, last)

\* one column of a table as a sequence of values
Column(df, col) == [i \in 1..Len(df) |-> df[i][col]]

\* sorted() of a list of strings
RECURSIVE InsertStr(_, _)
InsertStr(s, e) ==
    IF s = <<>> THEN <<e>>
    ELSE IF StrLess(e, Head(s)) THEN <<e>> \o s
    ELSE <<Head(s)>> \o InsertStr(Tail(s), e)

RECURSIVE sorted_str(_)
sorted_str(s) ==
    IF s = <<>> THEN <<>>
    ELSE InsertStr(sorted_str(SubSeq(s, 1, Len(s) - 1)), s[Len(s)])

\* sorted() of a list of integers
RECURSIVE InsertInt(_, _)
InsertInt(s, e) ==
    IF s = <<>> THEN <<e>>
    ELSE IF e < Head(s) THEN <<e>> \o s
    ELSE <<Head(s)>> \o InsertInt(Tail(s), e)

\* the years left in the order unique() gives them
sorted_int_unsorted(s) == s

RECURSIVE sorted_int(_)
sorted_int(s) ==
    IF s = <<>> THEN <<>>
    ELSE InsertInt(sorted_int(SubSeq(s, 1, Len(s) - 1)), s[Len(s)])

\* Series.min() and Series.max() of a non-empty column
SeriesMin(s) == CHOOSE v \in {s[i] : i \in 1..Len(s)} : \A j \in 1..Len(s) : v <= s[j]
SeriesMax(s) == CHOOSE v \in {s[i] : i \in 1..Len(s)} : \A j \in 1..Len(s) : v >= s[j]

\* ------------------------------------------------------------- the palette
\* plotly.express.colors.qualitative.Safe
COLOR_PALETTE ==
    << "rgb(136, 204, 238)", "rgb(204, 102, 119)", "rgb(221, 204, 119)",
       "rgb(17, 119, 51)",   "rgb(51, 34, 136)",   "rgb(170, 68, 153)",
       "rgb(68, 170, 153)",  "rgb(153, 153, 51)",  "rgb(136, 34, 85)",
       "rgb(102, 17, 0)",    "rgb(136, 136, 136)" >>

\* ------------------------------------------------------------ build_figure
\* df_filtered[df_filtered["Country Name"].isin(selected_countries)], when
\* the selection is not empty
isin_filter(df, selected_countries) ==
    IF selected_countries # {}
    THEN SelectSeq(df, LAMBDA r : r.Country_Name \in selected_countries)
    ELSE df

\* the order of sort_values(by=["Country Name", "Year"])
RowKeyLess(a, b) ==
    \/ StrLess(a.Country_Name, b.Country_Name)
    \/ a.Country_Name = b.Country_Name /\ a.Year < b.Year

\* sort_values on several keys is a lexsort, which is stable: a row goes
\* behind every row already placed whose key is not greater
RECURSIVE InsertRow(_, _)
InsertRow(s, r) ==
    IF s = <<>> THEN <<r>>
    ELSE IF RowKeyLess(r, Head(s)) THEN <<r>> \o s
    ELSE <<Head(s)>> \o InsertRow(Tail(s), r)

RECURSIVE sort_values(_)
sort_values(df) ==
    IF df = <<>> THEN <<>>
    ELSE InsertRow(sort_values(SubSeq(df, 1, Len(df) - 1)), df[Len(df)])

SameKey(a, b) == a.Country_Name = b.Country_Name /\ a.Year = b.Year

\* keep="first" in place of keep="last"
drop_duplicates_first(df) ==
    LET Keep(i) == \A j \in 1..(i - 1) : ~SameKey(df[j], df[i])
        F[i \in 0..Len(df)] ==
            IF i = 0 THEN <<>>
            ELSE IF Keep(i) THEN Append(F[i - 1], df[i]) ELSE F[i - 1]
    IN F[Len(df)]

\* drop_duplicates(subset=["Country Name", "Year"], keep="last")
drop_duplicates(df) ==
    LET Keep(i) == \A j \in (i + 1)..Len(df) : ~SameKey(df[j], df[i])
        F[i \in 0..Len(df)] ==
            IF i = 0 THEN <<>>
            ELSE IF Keep(i) THEN Append(F[i - 1], df[i]) ELSE F[i - 1]
    IN F[Len(df)]

\* (min * 0.95, max * 1.05) of a column, in hundredths
axis_range(df, col) ==
    << SeriesMin(Column(df, col)) * 95, SeriesMax(Column(df, col)) * 105 >>

\* a cycle that starts over at the second color
cycle_next_skips_first(pos) ==
    [color |-> COLOR_PALETTE[pos],
     pos   |-> IF pos = Len(COLOR_PALETTE) THEN 2 ELSE pos + 1]

\* next(palette_cycle): the color at the cycle's position, and the position
\* after it
cycle_next(pos) ==
    [color |-> COLOR_PALETTE[pos],
     pos   |-> IF pos = Len(COLOR_PALETTE) THEN 1 ELSE pos + 1]

\* for country in unique_countries: color_map[country] = next(palette_cycle)
RECURSIVE assign_colors(_, _, _)
assign_colors(countries, pos, color_map) ==
    IF countries = <<>> THEN color_map
    ELSE LET n == cycle_next(pos)
         IN assign_colors(Tail(countries), n.pos,
                          (Head(countries) :> n.color) @@ color_map)

\* country_data_map[country] = df_filtered[df_filtered["Country Name"] == country]
build_country_data_map(df_filtered, unique_countries) ==
    [c \in {unique_countries[i] : i \in 1..Len(unique_countries)} |->
        SelectSeq(df_filtered, LAMBDA r : r.Country_Name = c)]

\* the rows of the frame's own year only (== in place of <=)
history_of_year_only(country_data, year) ==
    SelectSeq(country_data, LAMBDA r : r.Year = year)

\* country_data[country_data["Year"] <= year]
history_of(country_data, year) ==
    SelectSeq(country_data, LAMBDA r : r.Year <= year)

\* the marker at the first row of the history (iloc[0] in place of iloc[-1])
country_traces_first_point(country, history, color) ==
    LET current_point == history[1]
    IN << [mode        |-> "lines",
           x           |-> Column(history, "Coal_Percentage_Value"),
           y           |-> Column(history, "Electricity_Consumption_Value"),
           color       |-> color,
           legendgroup |-> country,
           showlegend  |-> FALSE,
           customdata  |-> <<>>],
          [mode        |-> "markers",
           x           |-> <<current_point.Coal_Percentage_Value>>,
           y           |-> <<current_point.Electricity_Consumption_Value>>,
           color       |-> color,
           legendgroup |-> country,
           showlegend  |-> TRUE,
           customdata  |-> <<country, current_point.Year>>] >>

\* the two traces a country adds to a frame
country_traces(country, history, color) ==
    LET current_point == history[Len(history)]
    IN << [mode        |-> "lines",
           x           |-> Column(history, "Coal_Percentage_Value"),
           y           |-> Column(history, "Electricity_Consumption_Value"),
           color       |-> color,
           legendgroup |-> country,
           showlegend  |-> FALSE,
           customdata  |-> <<>>],
          [mode        |-> "markers",
           x           |-> <<current_point.Coal_Percentage_Value>>,
           y           |-> <<current_point.Electricity_Consumption_Value>>,
           color       |-> color,
           legendgroup |-> country,
           showlegend  |-> TRUE,
           customdata  |-> <<country, current_point.Year>>] >>

\* the inner loop of the frame construction, over unique_countries
RECURSIVE frame_traces(_, _, _, _)
frame_traces(year, countries, country_data_map, color_map) ==
    IF countries = <<>> THEN <<>>
    ELSE LET country == Head(countries)
             history == history_of(country_data_map[country], year)
             rest    == frame_traces(year, Tail(countries), country_data_map, color_map)
         IN IF history = <<>> THEN rest
            ELSE country_traces(country, history, color_map[country]) \o rest

\* frames: one go.Frame per year, named str(year)
build_frames(years, unique_countries, country_data_map, color_map) ==
    [i \in 1..Len(years) |->
        [name |-> str(years[i]),
         data |-> frame_traces(years[i], unique_countries, country_data_map, color_map)]]

\* the slider steps: one per year, labelled str(year)
slider_steps(years) ==
    [i \in 1..Len(years) |-> [label |-> str(years[i]), args |-> str(years[i])]]

\* a placeholder that keeps the playback buttons
placeholder_figure_with_buttons ==
    [title_text  |-> "No data available for the selected filters",
     data        |-> <<>>,
     frames      |-> <<>>,
     xaxis_range |-> <<>>,
     yaxis_range |-> <<>>,
     updatemenus |-> << <<"Play", "Pause">> >>,
     sliders     |-> <<>>]

\* the figure returned when the selection leaves no country
placeholder_figure ==
    [title_text  |-> "No data available for the selected filters",
     data        |-> <<>>,
     frames      |-> <<>>,
     xaxis_range |-> <<>>,
     yaxis_range |-> <<>>,
     updatemenus |-> <<>>,
     sliders     |-> <<>>]

\* build_figure(df_plot, selected_countries): the figure, the context and
\* the stages of the function that ran
build_figure(df_plot, selected_countries) ==
    LET selected         == isin_filter(df_plot, selected_countries)
        unique_countries == sorted_str(unique(Column(selected, "Country_Name")))
    IN IF unique_countries = <<>>
       THEN [fig     |-> placeholder_figure,
             context |-> None,
             stages  |-> <<"filter", "placeholder">>]
       ELSE
       LET df_filtered == drop_duplicates(sort_values(selected))
           x_range == axis_range(df_filtered, "Coal_Percentage_Value")
           y_range == axis_range(df_filtered, "Electricity_Consumption_Value")
           color_map == assign_colors(unique_countries, 1, <<>>)
           years == sorted_int(unique(Column(df_filtered, "Year")))
           country_data_map == build_country_data_map(df_filtered, unique_countries)
           frames == build_frames(years, unique_countries, country_data_map, color_map)
       IN [fig |->
             [title_text  |-> "Electricity Consumption vs. Coal Percentage",
              data        |-> IF frames # <<>> THEN frames[1].data ELSE <<>>,
              frames      |-> frames,
              xaxis_range |-> x_range,
              yaxis_range |-> y_range,
              updatemenus |-> << <<"Play", "Pause">> >>,
              sliders     |-> << slider_steps(years) >>],
           context |->
             [years            |-> years,
              unique_countries |-> unique_countries,
              country_data_map |-> country_data_map,
              color_map        |-> color_map,
              x_range          |-> x_range,
              y_range          |-> y_range],
           stages |-> <<"filter", "deduplicate", "axis_range", "color_map", "frames">>]

\* ----------------------------------------------------------- figure_to_gif
\* what happens to the Matplotlib / Pillow calls of one figure_to_gif call:
\* they all succeed, or the backend raises a RuntimeError or an error of
\* another class (plt.style.use raises OSError for a style it does not know)
BackendOutcomes == {"ok", "RuntimeError", "OSError"}

\* the export's marker at the first row of the history
country_artists_first_point(country, history, color) ==
    LET last_point == history[1]
    IN << [kind  |-> "plot",
           x     |-> Column(history, "Coal_Percentage_Value"),
           y     |-> Column(history, "Electricity_Consumption_Value"),
           color |-> color,
           label |-> country],
          [kind  |-> "scatter",
           x     |-> <<last_point.Coal_Percentage_Value>>,
           y     |-> <<last_point.Electricity_Consumption_Value>>,
           color |-> color,
           label |-> <<>>] >>

\* the artists one country adds to a still: ax.plot and ax.scatter
country_artists(country, history, color) ==
    LET last_point == history[Len(history)]
    IN << [kind  |-> "plot",
           x     |-> Column(history, "Coal_Percentage_Value"),
           y     |-> Column(history, "Electricity_Consumption_Value"),
           color |-> color,
           label |-> country],
          [kind  |-> "scatter",
           x     |-> <<last_point.Coal_Percentage_Value>>,
           y     |-> <<last_point.Electricity_Consumption_Value>>,
           color |-> color,
           label |-> <<>>] >>

\* the inner loop of the export, over context.unique_countries
RECURSIVE still_artists(_, _, _)
still_artists(year, countries, context) ==
    IF countries = <<>> THEN <<>>
    ELSE LET country == Head(countries)
             history == history_of(context.country_data_map[country], year)
             rest    == still_artists(year, Tail(countries), context)
         IN IF history = <<>> THEN rest
            ELSE country_artists(country, history, context.color_map[country]) \o rest

\* one still of the export: the axes of one year
render_still(year, context) ==
    [title_year |-> year,
     xlim       |-> context.x_range,
     ylim       |-> context.y_range,
     artists    |-> still_artists(year, context.unique_countries, context)]

\* the stills of the export, one per year of context.years
render_stills(context) ==
    [i \in 1..Len(context.years) |-> render_still(context.years[i], context)]

\* figure_to_gif without the check of context.years: frames[0] of an empty
\* list of stills raises IndexError
figure_to_gif_unguarded(context, backend) ==
    IF backend # "ok"
    THEN [raised  |-> backend,
          message |-> "backend",
          stills  |-> <<>>,
          encoded |-> FALSE,
          gif     |-> None]
    ELSE IF context.years = <<>>
    THEN [raised  |-> "IndexError",
          message |-> "list index out of range",
          stills  |-> <<>>,
          encoded |-> FALSE,
          gif     |-> None]
    ELSE [raised  |-> "none",
          message |-> "",
          stills  |-> render_stills(context),
          encoded |-> TRUE,
          gif     |-> [frames   |-> render_stills(context),
                       duration |-> 250,
                       loop     |-> 0]]

\* figure_to_gif(context): what it raises ("none" when it returns), the
\* stills it completed, whether it reached the GIF encoder, and the GIF
figure_to_gif(context, backend) ==
    IF context.years = <<>>
    THEN [raised  |-> "RuntimeError",
          message |-> "No timeline data available for export.",
          stills  |-> <<>>,
          encoded |-> FALSE,
          gif     |-> None]
    ELSE IF backend # "ok"
    THEN [raised  |-> backend,
          message |-> "backend",
          stills  |-> <<>>,
          encoded |-> FALSE,
          gif     |-> None]
    ELSE [raised  |-> "none",
          message |-> "",
          stills  |-> render_stills(context),
          encoded |-> TRUE,
          gif     |-> [frames   |-> render_stills(context),
                       duration |-> 250,
                       loop     |-> 0]]

\* ------------------------------------------------------------------ inputs
\* country names "C1", "C2", ...; as strings, "C10" sorts before "C2"
CountryName(i) == <<67>> \o str(i)

Years == FirstYear..(FirstYear + NumYears - 1)

\* the measurement columns of an input table, (coal share, consumption) by
\* row position and repeated from the top in longer tables: one without and
\* one with zero and negative values
ObservationColumns ==
    { << <<10, 100>>, <<20, 200>>, <<5, 50>> >>,
      << <<2, 3>>, <<-1, 0>>, <<0, -4>> >> }

ObservationAt(column, i) == column[((i - 1) % Len(column)) + 1]

\* the countries of the freely composed tables, and of the selections
SmallNames == {CountryName(2), CountryName(10)}

\* the i-th row of a table; read_csv numbers the rows from 0
Row(i, country, year, column) ==
    [index                         |-> i - 1,
     Country_Name                  |-> country,
     Year                          |-> year,
     Coal_Percentage_Value         |-> ObservationAt(column, i)[1],
     Electricity_Consumption_Value |-> ObservationAt(column, i)[2]]

\* every table of at most MaxRows rows whose (country, year) keys are drawn
\* from SmallNames and Years
SmallTables ==
    UNION {
        {[i \in 1..n |-> Row(i, keys[i][1], keys[i][2], column)] :
            keys \in [1..n -> SmallNames \X Years], column \in ObservationColumns}
        : n \in 0..MaxRows}

\* a table of k countries, one row each, listed from "Ck" down to "C1"
WideTable(k, column) ==
    [i \in 1..k |-> Row(i, CountryName(k - i + 1), FirstYear + (i % NumYears), column)]

WideTables ==
    {WideTable(k, column) : k \in (MaxRows + 1)..NumNames, column \in ObservationColumns}

InputTables == SmallTables \cup WideTables

\* all_countries = sorted(df_plot["Country Name"].unique())
all_countries(df) == sorted_str(unique(Column(df, "Country_Name")))

Range(s) == {s[i] : i \in 1..Len(s)}

\* ----------------------------------------------------------- state machine
VARIABLES
    df_plot,            \* the table load_data returned (cached)
    entry,              \* who calls the functions: "main" or a "direct" caller
    pc,                 \* the position of that caller
    country_selection,  \* the selection passed to build_figure
    fig,                \* the figure build_figure returned
    animation_context,  \* the context build_figure returned
    stages,             \* the stages of build_figure that ran
    ui,                 \* the Streamlit elements the run has emitted
    gif_calls,          \* calls of figure_to_gif in this run
    gif_arg,            \* the context of the last figure_to_gif call
    gif_out             \* the outcome of the last figure_to_gif call

vars == <<df_plot, entry, pc, country_selection, fig, animation_context,
          stages, ui, gif_calls, gif_arg, gif_out>>

Init ==
    /\ df_plot \in InputTables
    /\ entry \in {"main", "direct"}
    /\ pc = "start"
    /\ country_selection = {}
    /\ fig = None
    /\ animation_context = None
    /\ stages = <<>>
    /\ ui = <<>>
    /\ gif_calls = 0
    /\ gif_arg = None
    /\ gif_out = None

\* main up to the build_figure call: the multiselect offers all_countries
\* and returns a subset of them
MainBuildFigure ==
    /\ entry = "main" /\ pc = "start"
    /\ \E selection \in SUBSET (Range(all_countries(df_plot)) \cap SmallNames) :
         LET built == build_figure(df_plot, selection)
         IN /\ country_selection' = selection
            /\ fig' = built.fig
            /\ animation_context' = built.context
            /\ stages' = built.stages
    /\ ui' = <<"title", "markdown", "subheader", "multiselect">>
    /\ pc' = "built"
    /\ UNCHANGED <<df_plot, entry, gif_calls, gif_arg, gif_out>>

\* st.plotly_chart(fig) and the caption
MainPlotlyChart ==
    /\ entry = "main" /\ pc = "built"
    /\ ui' = ui \o <<"plotly_chart", "caption">>
    /\ pc' = "charted"
    /\ UNCHANGED <<df_plot, entry, country_selection, fig, animation_context,
                   stages, gif_calls, gif_arg, gif_out>>

\* if animation_context is None: st.info(...)
MainInfo ==
    /\ entry = "main" /\ pc = "charted"
    /\ animation_context = None
    /\ ui' = Append(ui, "info")
    /\ pc' = "done"
    /\ UNCHANGED <<df_plot, entry, country_selection, fig, animation_context,
                   stages, gif_calls, gif_arg, gif_out>>

\* else: try figure_to_gif; except RuntimeError: st.error; else:
\* st.download_button.  An exception of another class leaves main.
MainExport ==
    /\ entry = "main" /\ pc = "charted"
    /\ animation_context # None
    /\ \E backend \in BackendOutcomes :
         LET out == figure_to_gif(animation_context, backend)
         IN /\ gif_out' = out
            /\ ui' = IF out.raised = "none" THEN Append(ui, "download_button")
                     ELSE IF out.raised = "RuntimeError" THEN Append(ui, "error")
                     ELSE ui
            /\ pc' = IF out.raised \in {"none", "RuntimeError"} THEN "done"
                     ELSE "crashed"
    /\ gif_arg' = animation_context
    /\ gif_calls' = gif_calls + 1
    /\ UNCHANGED <<df_plot, entry, country_selection, fig, animation_context, stages>>

\* a widget interaction reruns the script from the top; load_data is cached
MainRerun ==
    /\ entry = "main" /\ pc \in {"done", "crashed"}
    /\ pc' = "start"
    /\ country_selection' = {}
    /\ fig' = None
    /\ animation_context' = None
    /\ stages' = <<>>
    /\ ui' = <<>>
    /\ gif_calls' = 0
    /\ gif_arg' = None
    /\ gif_out' = None
    /\ UNCHANGED <<df_plot, entry>>

\* build_figure called by another caller, with any selection
DirectBuildFigure ==
    /\ entry = "direct" /\ pc = "start"
    /\ \E selection \in SUBSET SmallNames :
         LET built == build_figure(df_plot, selection)
         IN /\ country_selection' = selection
            /\ fig' = built.fig
            /\ animation_context' = built.context
            /\ stages' = built.stages
    /\ pc' = "built"
    /\ UNCHANGED <<df_plot, entry, ui, gif_calls, gif_arg, gif_out>>

\* figure_to_gif called by another caller, with the context build_figure
\* returned or with that context and an empty years list
DirectFigureToGif ==
    /\ entry = "direct" /\ pc = "built"
    /\ animation_context # None
    /\ \E context \in {animation_context, [animation_context EXCEPT !.years = <<>>]},
          backend \in BackendOutcomes :
         /\ gif_arg' = context
         /\ gif_out' = figure_to_gif(context, backend)
    /\ gif_calls' = gif_calls + 1
    /\ pc' = "done"
    /\ UNCHANGED <<df_plot, entry, country_selection, fig, animation_context,
                   stages, ui>>

Next ==
    \/ MainBuildFigure
    \/ MainPlotlyChart
    \/ MainInfo
    \/ MainExport
    \/ MainRerun
    \/ DirectBuildFigure
    \/ DirectFigureToGif

Spec == Init /\ [][Next]_vars

\* ------------------------------------------------- what the claims refer to
\* build_figure has returned
Built == pc # "start"

\* the countries the selection stands for: all of them when it is empty
Scope ==
    IF country_selection = {}
    THEN {df_plot[i].Country_Name : i \in DOMAIN df_plot}
    ELSE country_selection

\* the positions of the input rows in the filtered set
FilteredRows == {i \in DOMAIN df_plot : df_plot[i].Country_Name \in Scope}

FilteredCountries == {df_plot[i].Country_Name : i \in FilteredRows}

FilteredYears == {df_plot[i].Year : i \in FilteredRows}

\* the positions of the filtered input rows of country c and year y
RowsOf(c, y) ==
    {i \in FilteredRows : df_plot[i].Country_Name = c /\ df_plot[i].Year = y}

\* the input row of (c, y) that is last in the original row order
LastRowOf(c, y) ==
    df_plot[CHOOSE i \in RowsOf(c, y) : \A j \in RowsOf(c, y) : j <= i]

\* the years up to Y in which country c has an observation
YearsUpTo(c, Y) == {y \in FilteredYears : y <= Y /\ RowsOf(c, y) # {}}

\* the elements of a set of integers in ascending order
Ascending(S) ==
    CHOOSE s \in [1..Cardinality(S) -> S] :
        \A i, j \in 1..Cardinality(S) : i < j => s[i] < s[j]

\* the observations of c up to Y: one per year, the last row of each year,
\* in ascending year order
Trajectory(c, Y) ==
    LET ys == Ascending(YearsUpTo(c, Y))
    IN [k \in 1..Len(ys) |-> LastRowOf(c, ys[k])]

\* the rows of the deduplicated table the context holds, over all countries
ContextRows ==
    UNION {Range(animation_context.country_data_map[c]) :
            c \in DOMAIN animation_context.country_data_map}

\* C1: for a non-empty filtered table, every frame is the frame of a year Y
\* of the table; it draws exactly the filtered countries that have an
\* observation with year <= Y, each with a line over its deduplicated
\* observations up to Y in ascending year order, followed by a marker at the
\* observation of the greatest year
C1_FrameContents ==
    (Built /\ FilteredRows # {}) =>
        /\ animation_context # None
        /\ \A i \in DOMAIN fig.frames :
            /\ \E Y \in FilteredYears : fig.frames[i].name = str(Y)
            /\ \A Y \in FilteredYears :
                fig.frames[i].name = str(Y) =>
                    LET data  == fig.frames[i].data
                        drawn == {c \in FilteredCountries : YearsUpTo(c, Y) # {}}
                    IN /\ {data[k].legendgroup : k \in DOMAIN data} = drawn
                       /\ Len(data) = 2 * Cardinality(drawn)
                       /\ \A c \in drawn :
                            LET traj == Trajectory(c, Y)
                                last == traj[Len(traj)]
                            IN \E k \in 1..(Len(data) - 1) :
                                /\ data[k].mode = "lines"
                                /\ data[k].legendgroup = c
                                /\ data[k].x = Column(traj, "Coal_Percentage_Value")
                                /\ data[k].y = Column(traj, "Electricity_Consumption_Value")
                                /\ data[k + 1].mode = "markers"
                                /\ data[k + 1].legendgroup = c
                                /\ data[k + 1].x = <<last.Coal_Percentage_Value>>
                                /\ data[k + 1].y = <<last.Electricity_Consumption_Value>>
                                /\ data[k + 1].customdata = <<c, last.Year>>
                                /\ \A y \in YearsUpTo(c, Y) : y <= last.Year

\* C1 witness: a selection that leaves out a country of the table, and a
\* frame whose line runs over two observations
C1_Witness ==
    /\ Built /\ animation_context # None
    /\ country_selection # {}
    /\ \E i \in DOMAIN df_plot : df_plot[i].Country_Name \notin country_selection
    /\ \E i \in DOMAIN fig.frames : \E k \in DOMAIN fig.frames[i].data :
         Len(fig.frames[i].data[k].x) = 2

\* C2: of the input rows with the same (country, year), exactly one is in
\* the deduplicated table, and it is the one last in the input's row order
C2_LastRowSurvives ==
    (Built /\ FilteredRows # {}) =>
        /\ animation_context # None
        /\ \A c \in FilteredCountries : \A y \in FilteredYears :
            RowsOf(c, y) # {} =>
                /\ Cardinality({r \in ContextRows :
                                   r.Country_Name = c /\ r.Year = y}) = 1
                /\ LastRowOf(c, y) \in ContextRows
                /\ Len(SelectSeq(animation_context.country_data_map[c],
                                 LAMBDA r : r.Year = y)) = 1

\* C2 witness: two input rows of one (country, year) with different values
C2_Witness ==
    /\ Built /\ animation_context # None
    /\ \E i, j \in FilteredRows :
         /\ i < j
         /\ SameKey(df_plot[i], df_plot[j])
         /\ df_plot[i].Coal_Percentage_Value # df_plot[j].Coal_Percentage_Value

\* the values of a column over the deduplicated filtered table
Deduplicated(col) ==
    {LastRowOf(df_plot[i].Country_Name, df_plot[i].Year)[col] : i \in FilteredRows}

Encloses(range, values) ==
    \A v \in values : range[1] <= v * 100 /\ v * 100 <= range[2]

\* C3: for a non-empty filtered table, on both axes
\* computed_min <= actual_min <= actual_max <= computed_max (the ranges are
\* in hundredths)
C3_RangeEnclosesData ==
    (Built /\ FilteredRows # {}) =>
        /\ animation_context # None
        /\ Encloses(animation_context.x_range, Deduplicated("Coal_Percentage_Value"))
        /\ Encloses(animation_context.y_range,
                    Deduplicated("Electricity_Consumption_Value"))

\* C4: for a non-empty filtered table there is at least one frame and
\* exactly one per distinct year of the filtered table, in strictly
\* ascending year order; the frame names, the slider steps and the years of
\* the context are the same years in the same order
C4_OneFramePerYear ==
    (Built /\ FilteredRows # {}) =>
        /\ animation_context # None
        /\ Len(fig.frames) >= 1
        /\ Len(fig.frames) = Cardinality(FilteredYears)
        /\ Range(animation_context.years) = FilteredYears
        /\ Len(animation_context.years) = Len(fig.frames)
        /\ \A i, j \in DOMAIN animation_context.years :
             i < j => animation_context.years[i] < animation_context.years[j]
        /\ \A i \in DOMAIN fig.frames :
             fig.frames[i].name = str(animation_context.years[i])
        /\ Len(fig.sliders) = 1
        /\ Len(fig.sliders[1]) = Len(fig.frames)
        /\ \A i \in DOMAIN fig.frames :
             /\ fig.sliders[1][i].label = fig.frames[i].name
             /\ fig.sliders[1][i].args = fig.frames[i].name

\* C4 witness: two frames from a table that lists a later year before an
\* earlier one and one year twice
C4_Witness ==
    /\ Built /\ animation_context # None
    /\ Len(fig.frames) >= 2
    /\ \E i, j \in FilteredRows : i < j /\ df_plot[i].Year > df_plot[j].Year
    /\ \E i, j \in FilteredRows : i < j /\ df_plot[i].Year = df_plot[j].Year

IsPrefix(s, t) == Len(s) <= Len(t) /\ \A k \in 1..Len(s) : s[k] = t[k]

\* C5: for frame years Y1 < Y2, every line of frame Y1 is continued by the
\* line of the same country in frame Y2 (which so holds every observation of
\* the earlier one), so a country drawn in a frame is drawn in every later one
C5_HistoryGrows ==
    (Built /\ FilteredRows # {}) =>
        /\ animation_context # None
        /\ \A i, j \in DOMAIN fig.frames : \A Y1, Y2 \in FilteredYears :
            (/\ Y1 < Y2
             /\ fig.frames[i].name = str(Y1)
             /\ fig.frames[j].name = str(Y2)) =>
                /\ {fig.frames[i].data[k].legendgroup : k \in DOMAIN fig.frames[i].data}
                     \subseteq
                   {fig.frames[j].data[k].legendgroup : k \in DOMAIN fig.frames[j].data}
                /\ \A k \in DOMAIN fig.frames[i].data :
                     fig.frames[i].data[k].mode = "lines" =>
                        \E m \in DOMAIN fig.frames[j].data :
                            /\ fig.frames[j].data[m].mode = "lines"
                            /\ fig.frames[j].data[m].legendgroup
                                 = fig.frames[i].data[k].legendgroup
                            /\ IsPrefix(fig.frames[i].data[k].x, fig.frames[j].data[m].x)
                            /\ IsPrefix(fig.frames[i].data[k].y, fig.frames[j].data[m].y)

\* C5 witness: a later frame that lengthens the line of one country and
\* draws a country the earlier frame does not
C5_Witness ==
    /\ Built /\ animation_context # None
    /\ \E i, j \in DOMAIN fig.frames :
         /\ i < j
         /\ Len(fig.frames[i].data) < Len(fig.frames[j].data)
         /\ \E k \in DOMAIN fig.frames[i].data : \E m \in DOMAIN fig.frames[j].data :
              /\ fig.frames[i].data[k].legendgroup = fig.frames[j].data[m].legendgroup
              /\ Len(fig.frames[i].data[k].x) < Len(fig.frames[j].data[m].x)

\* the number of filtered countries that sort before c
Rank(c) == Cardinality({d \in FilteredCountries : StrLess(d, c)})

\* C6: the i-th (from 0) filtered country in lexicographic order has the
\* color palette[i mod N]; exactly the filtered countries have a color; two
\* countries share one only when more than N countries are present; the
\* context holds the map the traces are colored with
C6_ColorAssignment ==
    (Built /\ FilteredRows # {}) =>
        /\ animation_context # None
        /\ DOMAIN animation_context.color_map = FilteredCountries
        /\ \A c \in FilteredCountries :
             animation_context.color_map[c]
               = COLOR_PALETTE[(Rank(c) % Len(COLOR_PALETTE)) + 1]
        /\ \A c, d \in FilteredCountries :
             (c # d /\ animation_context.color_map[c] = animation_context.color_map[d])
               => Cardinality(FilteredCountries) > Len(COLOR_PALETTE)
        /\ \A i \in DOMAIN fig.frames : \A k \in DOMAIN fig.frames[i].data :
             fig.frames[i].data[k].color
               = animation_context.color_map[fig.frames[i].data[k].legendgroup]

\* C6 witness: more countries than colors, two of them with the same color
C6_Witness ==
    /\ Built /\ animation_context # None
    /\ Cardinality(FilteredCountries) > Len(COLOR_PALETTE)
    /\ \E c, d \in FilteredCountries :
         c # d /\ animation_context.color_map[c] = animation_context.color_map[d]

\* C7: when the selection leaves no row, build_figure returns a figure
\* without frames, buttons and slider and no context, and runs none of the
\* later stages; main then does not call figure_to_gif, shows no download
\* button and ends with the informational message
C7_NoData ==
    (Built /\ FilteredRows = {}) =>
        /\ fig.frames = <<>>
        /\ fig.data = <<>>
        /\ fig.updatemenus = <<>>
        /\ fig.sliders = <<>>
        /\ animation_context = None
        /\ Range(stages) \cap {"deduplicate", "axis_range", "color_map", "frames"} = {}
        /\ entry = "main" =>
             /\ gif_calls = 0
             /\ gif_out = None
             /\ "download_button" \notin Range(ui)
             /\ pc # "crashed"
             /\ pc = "done" => ui[Len(ui)] = "info"

\* C7 witness: main has finished a run over a table without rows
C7_Witness ==
    /\ entry = "main" /\ pc = "done"
    /\ FilteredRows = {}
    /\ "info" \in Range(ui)

\* the call of figure_to_gif returned a GIF for the context build_figure
\* returned
Exported ==
    /\ gif_out # None
    /\ gif_out.raised = "none"
    /\ gif_arg = animation_context

C9_EmptyYearsRaises ==
    /\ (gif_out # None /\ gif_arg.years = <<>>) =>
          /\ gif_out.raised = "RuntimeError"
          /\ gif_out.message = "No timeline data available for export."
          /\ gif_out.stills = <<>>
          /\ ~gif_out.encoded
          /\ gif_out.gif = None
    /\ (entry = "main" /\ gif_out # None /\ gif_out.raised = "RuntimeError") =>
          /\ pc = "done"
          /\ ui[Len(ui)] = "error"
          /\ "download_button" \notin Range(ui)

\* C9 witness: figure_to_gif was called with an empty years list and raised
C9_Witness ==
    /\ gif_out # None
    /\ gif_arg.years = <<>>
    /\ gif_out.raised = "RuntimeError"

\* C10: when figure_to_gif fails in a run of main, for whatever reason, the
\* run does not crash, the chart is on the page, the failure is shown as an
\* error, there is no download button, and figure_to_gif was called once
C10_ExportFailureContained ==
    (entry = "main" /\ gif_out # None /\ gif_out.raised # "none") =>
        /\ pc # "crashed"
        /\ "plotly_chart" \in Range(ui)
        /\ "error" \in Range(ui)
        /\ "download_button" \notin Range(ui)
        /\ gif_calls = 1

====
